---- MODULE Spec2Model ----
(***************************************************************************)
(* Model of build_sc2map.py: the three-tier merge (map < patch < extra) of *)
(* SC2 catalog XML files, sectioned INI/TXT files and opaque files.        *)
(*                                                                         *)
(* An lxml element is a record [tag, attrib, text, kids]; attrib is the    *)
(* ordered attribute mapping, a sequence of <<name, value>> pairs with     *)
(* unique names; kids is the ordered sequence of child elements.           *)
(***************************************************************************)
EXTENDS Integers, Sequences, FiniteSets, TLC

VARIABLES files, out, pc, raised, stdout, task

vars == <<files, out, pc, raised, stdout, task>>

(***************************************************************************)
(* Strings.  Python compares str by code point; Alphabet lists every       *)
(* string the model sorts, in that order.                                  *)
(***************************************************************************)
None == "None"

Alphabet ==
    << "", "0", "1", "10", "15", "5", "50", "7", "80",
       "CAbil", "CUnit", "Catalog", "GameStrings.txt", "Minimap.tga",
       "Sounds", "UnitData.xml", "Video", "__root__",
       "amount", "bass", "effect", "hp", "id", "index", "m",
       "t3HeightMap",
       "value", "ver", "volume", "weapon" >>

Ord(s) == CHOOSE i \in 1..Len(Alphabet) : Alphabet[i] = s

StrLess(a, b) == Ord(a) < Ord(b)

\* str.strip() on the texts the model uses
Strip(s) ==
    CASE s = " 5 " -> "5"
      [] s = "5 " -> "5"
      [] s = " " -> ""
      [] OTHER -> s

Range(s) == {s[i] : i \in 1..Len(s)}

\* F(v), with v evaluated once
Let(v, F(_)) == CHOOSE y \in {F(x) : x \in {v}} : TRUE

\* sorted(...) of a sequence of distinct elements that Less orders totally
Sorted(s, Less(_, _)) ==
    [i \in 1..Len(s) |->
        CHOOSE x \in Range(s) : Cardinality({y \in Range(s) : Less(y, x)}) = i - 1]

(***************************************************************************)
(* Attribute mappings (node.attrib)                                        *)
(***************************************************************************)
Has(a, k) == \E i \in 1..Len(a) : a[i][1] = k

Get(a, k) == a[CHOOSE i \in 1..Len(a) : a[i][1] = k][2]

\* a[k] = v : an existing name keeps its place, a new one goes last
SetItem(a, k, v) ==
    IF Has(a, k)
    THEN [i \in 1..Len(a) |-> IF a[i][1] = k THEN <<k, v>> ELSE a[i]] \o <<>>
    ELSE Append(a, <<k, v>>)

\* for k, v in source.attrib.items(): target.attrib[k] = v
RECURSIVE UpdateAttrib(_, _)
UpdateAttrib(a, b) ==
    IF b = <<>> THEN a
    ELSE Let(SetItem(a, b[1][1], b[1][2]), LAMBDA c : UpdateAttrib(c, Tail(b)))

PairLess(p, q) == StrLess(p[1], q[1]) \/ (p[1] = q[1] /\ StrLess(p[2], q[2]))

\* tuple(sorted(a.items()))
SortedItems(a) == Sorted(a, PairLess)

(***************************************************************************)
(* xml_identity_key                                                        *)
(***************************************************************************)
\* a resolver that looks at index before id
xml_identity_key_index_first(node) ==
    LET a == node.attrib
    IN  IF Has(a, "index") THEN <<"index", node.tag, Get(a, "index")>>
        ELSE IF Has(a, "id") THEN <<"id", node.tag, Get(a, "id")>>
        ELSE IF Has(a, "value") THEN <<"value", node.tag, Get(a, "value")>>
        ELSE IF a # <<>> THEN <<"attrs", node.tag, SortedItems(a)>>
        ELSE <<"unique", None>>

xml_identity_key(node) ==
    LET a == node.attrib
    IN  IF Has(a, "id") THEN <<"id", node.tag, Get(a, "id")>>
        ELSE IF Has(a, "index") THEN <<"index", node.tag, Get(a, "index")>>
        ELSE IF Has(a, "value") THEN <<"value", node.tag, Get(a, "value")>>
        ELSE IF a # <<>> THEN <<"attrs", node.tag, SortedItems(a)>>
        ELSE <<"unique", None>>

(***************************************************************************)
(* element_signature.  A signature is <<tag, attrib_tuple, text,           *)
(* children_counter_tuple>>, the last the sorted tuple of <<signature,     *)
(* count>> items.  sorted() compares the items with Python's tuple order,  *)
(* which raises TypeError when it reaches a None text against a str text.  *)
(***************************************************************************)
\* first index at which two tuples differ, 0 when one is a prefix of the other
FirstDiff(s, t) ==
    LET n == IF Len(s) < Len(t) THEN Len(s) ELSE Len(t)
        D == {i \in 1..n : s[i] # t[i]}
    IN  IF D = {} THEN 0 ELSE CHOOSE i \in D : \A j \in D : i <= j

\* tuple < tuple for tuples of (name, value) string pairs
AttribTupleLess(s, t) ==
    LET i == FirstDiff(s, t)
    IN  IF i = 0 THEN Len(s) < Len(t) ELSE PairLess(s[i], t[i])

\* whether sig1 < sig2 raises TypeError (sig1 # sig2)
RECURSIVE SigCmpRaises(_, _)
SigCmpRaises(s1, s2) ==
    IF s1[1] # s2[1] THEN FALSE
    ELSE IF s1[2] # s2[2] THEN FALSE
    ELSE IF s1[3] # s2[3] THEN (s1[3] = None) \/ (s2[3] = None)
    ELSE LET i == FirstDiff(s1[4], s2[4])
         IN  IF i = 0 THEN FALSE
             ELSE IF s1[4][i][1] # s2[4][i][1]
                  THEN SigCmpRaises(s1[4][i][1], s2[4][i][1])
                  ELSE FALSE

\* sig1 < sig2 where the comparison does not raise
RECURSIVE SigLess(_, _)
SigLess(s1, s2) ==
    IF s1[1] # s2[1] THEN StrLess(s1[1], s2[1])
    ELSE IF s1[2] # s2[2] THEN AttribTupleLess(s1[2], s2[2])
    ELSE IF s1[3] # s2[3] THEN StrLess(s1[3], s2[3])
    ELSE LET i == FirstDiff(s1[4], s2[4])
         IN  IF i = 0 THEN Len(s1[4]) < Len(s2[4])
             ELSE IF s1[4][i][1] # s2[4][i][1]
                  THEN SigLess(s1[4][i][1], s2[4][i][1])
                  ELSE s1[4][i][2] < s2[4][i][2]

ItemLess(x, y) == IF x[1] # y[1] THEN SigLess(x[1], y[1]) ELSE x[2] < y[2]

\* Counter(child_sigs).items() : each distinct signature with its count
CounterItems(child_sigs) ==
    LET first == {i \in 1..Len(child_sigs) :
                     \A j \in 1..(i - 1) : child_sigs[j] # child_sigs[i]}
        count(s) == Cardinality({i \in 1..Len(child_sigs) : child_sigs[i] = s})
        F[i \in 0..Len(child_sigs)] ==
            IF i = 0 THEN <<>>
            ELSE IF i \in first
                 THEN Append(F[i - 1], <<child_sigs[i], count(child_sigs[i])>>)
                 ELSE F[i - 1]
    IN  F[Len(child_sigs)]

\* [element_signature(c) for c in node], as far as none raises
RECURSIVE element_signature(_)
RECURSIVE ChildSigs(_, _, _)
ChildSigs(kids, i, acc) ==
    IF i > Len(kids) THEN [raised |-> FALSE, sigs |-> acc]
    ELSE Let(element_signature(kids[i]),
             LAMBDA r : IF r.raised THEN [raised |-> TRUE, sigs |-> <<>>]
                        ELSE ChildSigs(kids, i + 1, Append(acc, r.sig)))

\* the result is [raised |-> TypeError propagated, sig |-> the signature]
element_signature(node) ==
    LET tag == node.tag
        attrib_tuple == SortedItems(node.attrib)
        text == IF node.text # None /\ Strip(node.text) # ""
                THEN Strip(node.text) ELSE None
    IN  Let(ChildSigs(node.kids, 1, <<>>),
            LAMBDA cs :
              IF cs.raised THEN [raised |-> TRUE, sig |-> <<>>]
              ELSE Let(CounterItems(cs.sigs) \o <<>>,
                       LAMBDA items :
                         IF \E i, j \in 1..Len(items) :
                               i # j /\ SigCmpRaises(items[i][1], items[j][1])
                         THEN [raised |-> TRUE, sig |-> <<>>]
                         ELSE [raised |-> FALSE,
                               sig |-> <<tag, attrib_tuple, text,
                                         Sorted(items, ItemLess) \o <<>> >>]))

(***************************************************************************)
(* merge_xml_children_nodes.  key_map is the dict in insertion order: a    *)
(* sequence of [k |-> key, lst |-> indices into the target's children].    *)
(* The loop over the source's children carries st = [raised |-> an         *)
(* exception is on its way out, kids |-> the target's children, key_map].  *)
(* The result is [raised, node |-> the target after the merge].            *)
(***************************************************************************)
KeyMapGet(key_map, key) ==
    IF \E i \in 1..Len(key_map) : key_map[i].k = key
    THEN key_map[CHOOSE i \in 1..Len(key_map) : key_map[i].k = key].lst
    ELSE <<>>

\* key_map.setdefault(key, []).append(c)
SetDefaultAppend(key_map, key, c) ==
    IF \E i \in 1..Len(key_map) : key_map[i].k = key
    THEN [i \in 1..Len(key_map) |->
             IF key_map[i].k = key
             THEN [key_map[i] EXCEPT !.lst = Append(@, c)]
             ELSE key_map[i]] \o <<>>
    ELSE Append(key_map, [k |-> key, lst |-> <<c>>])

\* lines 99-102
RECURSIVE BuildKeyMap(_, _, _)
BuildKeyMap(kids, i, key_map) ==
    IF i > Len(kids) THEN key_map
    ELSE Let(SetDefaultAppend(key_map, xml_identity_key(kids[i]), i),
             LAMBDA km : BuildKeyMap(kids, i + 1, km))

\* lines 116-120
RECURSIVE ExistingList(_, _, _)
ExistingList(key_map, i, tag) ==
    IF i > Len(key_map) THEN <<>>
    ELSE (IF key_map[i].k[1] = "unique" /\ key_map[i].k[2] = tag
          THEN key_map[i].lst ELSE <<>>)
         \o ExistingList(key_map, i + 1, tag)

\* lines 122-126: "found", "notfound" or "raised"
RECURSIVE FindEquivalent(_, _, _, _)
FindEquivalent(kids, existing_list, i, child_sig) ==
    IF i > Len(existing_list) THEN "notfound"
    ELSE Let(element_signature(kids[existing_list[i]]),
             LAMBDA r : IF r.raised THEN "raised"
                        ELSE IF r.sig = child_sig THEN "found"
                        ELSE FindEquivalent(kids, existing_list, i + 1, child_sig))

\* the child put before the target's children instead of after them
Prepended(st, child, key) ==
    [st EXCEPT !.kids = <<child>> \o @,
               !.key_map = SetDefaultAppend(@, key, Len(st.kids) + 1)]

\* target.append(child) with key_map.setdefault(key, []).append(child)
Appended(st, child, key) ==
    [st EXCEPT !.kids = Append(@, child),
               !.key_map = SetDefaultAppend(@, key, Len(st.kids) + 1)]

RECURSIVE merge_xml_children_nodes(_, _)
\* lines 105-130: one turn of the loop over the source's children
SourceStep(st, child) ==
    LET key == xml_identity_key(child)
    IN  IF key[1] # "unique"
        THEN LET targets == KeyMapGet(st.key_map, key)
             IN  IF targets # <<>>
                 THEN Let(merge_xml_children_nodes(st.kids[targets[1]], child),
                          LAMBDA r : IF r.raised THEN [st EXCEPT !.raised = TRUE]
                                     ELSE [st EXCEPT !.kids[targets[1]] = r.node])
                 ELSE Appended(st, child, key)
        ELSE Let(element_signature(child),
                 LAMBDA cs :
                   IF cs.raised THEN [st EXCEPT !.raised = TRUE]
                   ELSE Let(FindEquivalent(st.kids,
                                           ExistingList(st.key_map, 1, child.tag),
                                           1, cs.sig),
                            LAMBDA found :
                              IF found = "raised" THEN [st EXCEPT !.raised = TRUE]
                              ELSE IF found = "found" THEN st
                              ELSE Appended(st, child, <<"unique", child.tag>>)))

\* lines 104-130: the loop from the source's i-th child on
RECURSIVE SourceLoop(_, _, _)
SourceLoop(st, source, i) ==
    IF st.raised \/ i > Len(source.kids) THEN st
    ELSE Let(SourceStep(st, source.kids[i]),
             LAMBDA s : SourceLoop(s, source, i + 1))

merge_xml_children_nodes(target, source) ==
    Let([raised |-> FALSE, kids |-> target.kids,
         key_map |-> BuildKeyMap(target.kids, 1, <<>>)],
        LAMBDA st0 :
          Let(SourceLoop(st0, source, 1),
              LAMBDA st :
                [raised |-> st.raised,
                 node |-> [target EXCEPT
                             !.attrib = UpdateAttrib(target.attrib, source.attrib),
                             !.kids = st.kids]]))

(***************************************************************************)
(* Files.  A file's content is one of                                      *)
(*   NoFile                          the path does not exist               *)
(*   [kind |-> "xml", fmt, root]     a well-formed document; fmt is the    *)
(*                                   byte layout, "authored" as found in   *)
(*                                   an input tree or "pretty" as lxml     *)
(*                                   writes it                             *)
(*   [kind |-> "malformed"]          bytes lxml cannot parse               *)
(*   [kind |-> "text", lines]        a text file, line by line             *)
(*   [kind |-> "bytes", id]          any other content                     *)
(* A file system fs maps the four paths of one merge, "base", "patch",     *)
(* "extra" and "dest", to their contents.                                  *)
(***************************************************************************)
NoFile == [kind |-> "absent"]

Malformed == [kind |-> "malformed"]

XmlFile(root) == [kind |-> "xml", fmt |-> "authored", root |-> root]

Exists(f) == f # NoFile

NoRaise == ""

\* shutil.copy(src, dst): SameFileError when both name the same file
Copy(fs, src, dst) ==
    IF src = dst
    THEN [raised |-> "SameFileError", fs |-> fs, prints |-> <<>>]
    ELSE [raised |-> NoRaise, fs |-> [fs EXCEPT ![dst] = fs[src]], prints |-> <<>>]

\* safe_parse: the root element, or None with a warning printed
ParseOk(f) == f.kind = "xml"

SafeParsePrints(fs, file) ==
    IF Exists(fs[file]) /\ ~ParseOk(fs[file])
    THEN << [msg |-> "invalid_xml", file |-> file] >>
    ELSE <<>>

\* ET.ElementTree(merged).write(..., pretty_print=True, xml_declaration=True)
Written(root) == [kind |-> "xml", fmt |-> "pretty", root |-> root]

\* lines 44-48: by_id after the loop over root_a, id -> index of the child
RECURSIVE RootById(_, _, _)
RootById(kids, i, by_id) ==
    IF i > Len(kids) THEN by_id
    ELSE LET a == kids[i].attrib
         IN  IF Has(a, "id") /\ Get(a, "id") # ""
             THEN Let(SetItem(by_id, Get(a, "id"), i),
                      LAMBDA d : RootById(kids, i + 1, d))
             ELSE RootById(kids, i + 1, by_id)

\* lines 51-55: one turn of the loop over root_b's children
RootStep(st, by_id, child_b) ==
    LET a == child_b.attrib
    IN  IF Has(a, "id") /\ Has(by_id, Get(a, "id"))
        THEN Let(merge_xml_children_nodes(st.kids[Get(by_id, Get(a, "id"))], child_b),
                 LAMBDA r : IF r.raised THEN [st EXCEPT !.raised = TRUE]
                            ELSE [st EXCEPT !.kids[Get(by_id, Get(a, "id"))] = r.node])
        ELSE [st EXCEPT !.kids = Append(@, child_b)]

\* lines 50-55: the loop from root_b's i-th child on
RECURSIVE RootLoop(_, _, _, _)
RootLoop(st, by_id, root_b, i) ==
    IF st.raised \/ i > Len(root_b.kids) THEN st
    ELSE Let(RootStep(st, by_id, root_b.kids[i]),
             LAMBDA s : RootLoop(s, by_id, root_b, i + 1))

\* lines 41-55: both documents parsed
MergedRoot(root_a, root_b) ==
    Let(RootById(root_a.kids, 1, <<>>),
        LAMBDA by_id :
          Let(RootLoop([raised |-> FALSE, kids |-> root_a.kids], by_id, root_b, 1),
              LAMBDA st :
                [raised |-> st.raised,
                 node |-> [tag |-> root_a.tag, attrib |-> root_a.attrib,
                           text |-> None, kids |-> st.kids]]))

merge_catalog_xml(fs, file_a, file_b, out_file) ==
    LET a_ok == Exists(fs[file_a]) /\ ParseOk(fs[file_a])
        b_ok == Exists(fs[file_b]) /\ ParseOk(fs[file_b])
        prints == SafeParsePrints(fs, file_a) \o SafeParsePrints(fs, file_b)
    IN  IF ~a_ok /\ b_ok
        THEN [Copy(fs, file_b, out_file) EXCEPT !.prints = prints]
        ELSE IF ~b_ok /\ a_ok
        THEN [Copy(fs, file_a, out_file) EXCEPT !.prints = prints]
        ELSE IF ~a_ok /\ ~b_ok
        THEN [raised |-> NoRaise, fs |-> fs, prints |-> prints]
        ELSE Let(MergedRoot(fs[file_a].root, fs[file_b].root),
                 LAMBDA m :
                   IF m.raised
                   THEN [raised |-> "TypeError", fs |-> fs, prints |-> prints]
                   ELSE [raised |-> NoRaise,
                         fs |-> [fs EXCEPT ![out_file] = Written(m.node)],
                         prints |-> prints])

(***************************************************************************)
(* merge_ini_files.  A dict is its items in insertion order, a sequence of *)
(* <<key, value>> pairs.  A line of a text file is one of                  *)
(*   [t |-> "blank"]  [t |-> "comment"]  [t |-> "header", name]            *)
(*   [t |-> "kv", k, v, eq]   eq the text between key and value, "=" or    *)
(*                            " = "                                        *)
(*   [t |-> "other"]          a line with no "="                           *)
(***************************************************************************)
Blank == [t |-> "blank"]

Header(name) == [t |-> "header", name |-> name]

KV(k, v, eq) == [t |-> "kv", k |-> k, v |-> v, eq |-> eq]

\* data.setdefault(key, {})
SetDefault(data, key) == IF Has(data, key) THEN data ELSE Append(data, <<key, <<>>>>)

\* lines 144-156
RECURSIVE ReadLines(_, _, _, _)
ReadLines(lines, i, current, data) ==
    IF i > Len(lines) THEN data
    ELSE LET line == lines[i]
         IN  IF line.t = "header"
             THEN ReadLines(lines, i + 1, line.name, SetDefault(data, line.name))
             ELSE IF line.t = "kv"
             THEN LET d == SetDefault(data, current)
                  IN  ReadLines(lines, i + 1, current,
                                SetItem(d, current, SetItem(Get(d, current), line.k, line.v)))
             ELSE ReadLines(lines, i + 1, current, data)

read_ini(f) ==
    IF ~Exists(f) THEN <<>>
    ELSE ReadLines(f.lines, 1, "__root__", << <<"__root__", <<>>>> >>)

\* a redefinition that reports a conflict even when the value is unchanged
ConflictOnRedefinition(lowsec, k, v) == Has(lowsec, k)

\* line 168: k in low[section] and low[section][k] != v
Conflict(lowsec, k, v) == Has(lowsec, k) /\ Get(lowsec, k) # v

\* lines 167-170: the keys of one section of high, from the i-th on
RECURSIVE MergeKeys(_, _, _, _, _, _)
MergeKeys(lowsec, kv, i, section, name, prints) ==
    IF i > Len(kv) THEN [sec |-> lowsec, prints |-> prints]
    ELSE LET k == kv[i][1]
             v == kv[i][2]
             conflict == Conflict(lowsec, k, v)
         IN  MergeKeys(SetItem(lowsec, k, v), kv, i + 1, section, name,
                       IF conflict
                       THEN Append(prints, [msg |-> "conflict", section |-> section,
                                            key |-> k, name |-> name, value |-> v])
                       ELSE prints)

\* lines 162-170: the sections of high, from the i-th on
RECURSIVE MergeSections(_, _, _, _, _)
MergeSections(low, high, i, name, prints) ==
    IF i > Len(high) THEN [low |-> low, prints |-> prints]
    ELSE LET section == high[i][1]
             kv == high[i][2]
         IN  IF ~Has(low, section)
             THEN MergeSections(Append(low, <<section, kv>>), high, i + 1, name, prints)
             ELSE LET r == MergeKeys(Get(low, section), kv, 1, section, name, prints)
                  IN  MergeSections(SetItem(low, section, r.sec), high, i + 1,
                                    name, r.prints)

\* a merge in which the lower-priority table wins
merge_dicts_low_wins(low, high, name) ==
    [low |-> MergeSections(high, low, 1, name, <<>>).low, prints |-> <<>>]

merge_dicts(low, high, name) == MergeSections(low, high, 1, name, <<>>)

\* the entries of a section written in the order the table holds them
KVLinesUnsorted(d) == [i \in 1..Len(d) |-> KV(d[i][1], d[i][2], " = ")]

\* for k, v in sorted(d.items()): f.write(f"{k} = {v}\n")
KVLines(d) ==
    LET items == Sorted(d, PairLess)
    IN  [i \in 1..Len(items) |-> KV(items[i][1], items[i][2], " = ")]

RECURSIVE SectionLines(_, _, _)
SectionLines(merged, names, i) ==
    IF i > Len(names) THEN <<>>
    ELSE <<Header(names[i])>> \o KVLines(Get(merged, names[i])) \o <<Blank>>
         \o SectionLines(merged, names, i + 1)

\* lines 185-195
IniLines(merged) ==
    LET root == IF Has(merged, "__root__") /\ Get(merged, "__root__") # <<>>
                THEN KVLines(Get(merged, "__root__")) \o <<Blank>>
                ELSE <<>>
        keys == [i \in 1..Len(merged) |-> merged[i][1]]
        named == SelectSeq(keys, LAMBDA x : x # "__root__")
    IN  root \o SectionLines(merged, Sorted(named, StrLess), 1)

\* lines 176-182: the merged table and what merging printed
MergedIni(base_ini, patch_ini, extra_ini) ==
    LET p == merge_dicts(base_ini, patch_ini, "patch")
        e == merge_dicts(p.low, extra_ini, "extra")
    IN  [merged |-> e.low, prints |-> p.prints \o e.prints]

merge_ini_files(fs, base, patch, extra, out_file) ==
    IF ~Exists(fs[patch]) /\ ~Exists(fs[extra])
    THEN Copy(fs, base, out_file)
    ELSE LET m == MergedIni(read_ini(fs[base]), read_ini(fs[patch]), read_ini(fs[extra]))
         IN  [raised |-> NoRaise,
              fs |-> [fs EXCEPT ![out_file] =
                         [kind |-> "text", lines |-> IniLines(m.merged)]],
              prints |-> m.prints]

(***************************************************************************)
(* merge_file_triple                                                       *)
(***************************************************************************)
\* a step of the function, skipped once an exception is on its way out
Then(r, cond, op(_)) ==
    IF r.raised # NoRaise \/ ~cond THEN r
    ELSE Let(op(r.fs), LAMBDA n : [n EXCEPT !.prints = r.prints \o n.prints])

\* the lowest-priority tier that has the file
ByteCopySourceLowest(exists) ==
    IF "base" \in exists THEN "base"
    ELSE IF "patch" \in exists THEN "patch" ELSE "extra"

\* line 217: src = extra if extra.exists() else patch if patch.exists() else base
ByteCopySource(exists) ==
    IF "extra" \in exists THEN "extra"
    ELSE IF "patch" \in exists THEN "patch" ELSE "base"

merge_file_triple(fs, suffix) ==
    LET start == [raised |-> NoRaise, fs |-> fs, prints |-> <<>>]
        exists == {p \in {"base", "patch", "extra"} : Exists(fs[p])}
    IN  IF exists = {} THEN start
        ELSE IF suffix = ".xml"
        THEN Let(Then(start, "base" \in exists,
                      LAMBDA f : Copy(f, "base", "dest")),
                 LAMBDA c :
                   Let(Then(c, "patch" \in exists,
                            LAMBDA f : Let(f, LAMBDA g :
                                             merge_catalog_xml(g, "dest", "patch", "dest"))),
                       LAMBDA p :
                         Then(p, "extra" \in exists,
                              LAMBDA f : Let(f, LAMBDA g :
                                               merge_catalog_xml(g, "dest", "extra", "dest")))))
        ELSE IF suffix \in {".txt", ".ini"}
        THEN merge_ini_files(fs, "base", "patch", "extra", "dest")
        ELSE Copy(fs, ByteCopySource(exists), "dest")

(***************************************************************************)
(* merge_all.  files maps each relative path to its file in the three      *)
(* input trees, out maps it to its file in the output tree.  pc counts the *)
(* paths merge_all's loop has finished; raised is the exception that left  *)
(* merge_all, if any; stdout is what was printed, each print with the path *)
(* being merged.  task maps each path to how far its merge has got: the   *)
(* number of its stages finished, or Failed once it has raised.            *)
(***************************************************************************)
RelPaths == {"GameStrings.txt", "Minimap.tga", "UnitData.xml", "t3HeightMap"}

\* Path.suffix
Suffix(rel) ==
    CASE rel = "GameStrings.txt" -> ".txt"
      [] rel = "UnitData.xml" -> ".xml"
      [] rel = "Minimap.tga" -> ".tga"
      [] rel = "t3HeightMap" -> ""

\* the stages of one call of merge_file_triple: for a catalog path the copy
\* of line 208 and the two merge_catalog_xml calls, else the one merge or copy
Stages(suffix) == IF suffix = ".xml" THEN 3 ELSE 1

Failed == 0 - 1

NoFiles == [base |-> NoFile, patch |-> NoFile, extra |-> NoFile]

\* a union that leaves the third tree out
all_files_without_extra ==
    {rel \in RelPaths : \E t \in {"base", "patch"} : Exists(files[rel][t])}

\* lines 225-231
all_files == {rel \in RelPaths : \E t \in {"base", "patch", "extra"} : Exists(files[rel][t])}

\* sorted(all_files)
SortedFiles ==
    [i \in 1..Cardinality(all_files) |->
        CHOOSE x \in all_files : Cardinality({y \in all_files : StrLess(y, x)}) = i - 1]

\* one turn of the loop at lines 233-238
Step ==
    /\ raised = NoRaise
    /\ pc < Cardinality(all_files)
    /\ \E rel \in {SortedFiles[pc + 1]} :
       \E fs \in {[base |-> files[rel].base, patch |-> files[rel].patch,
                   extra |-> files[rel].extra, dest |-> out[rel]]} :
       \E r \in {merge_file_triple(fs, Suffix(rel))} :
          /\ out' = [out EXCEPT ![rel] = r.fs["dest"]]
          /\ raised' = r.raised
          /\ pc' = IF r.raised = NoRaise THEN pc + 1 ELSE pc
          /\ stdout' = stdout \o [i \in 1..Len(r.prints) |->
                                     [rel |-> rel, print |-> r.prints[i]]]
          /\ task' = [task EXCEPT ![rel] = IF r.raised = NoRaise
                                            THEN Stages(Suffix(rel)) ELSE Failed]
    /\ UNCHANGED files

Next == Step

(***************************************************************************)
(* Catalog documents of bounded size.  The size of a file is the number of *)
(* elements below its root plus the number of attributes of its root; the  *)
(* three files of a path hold at most MaxSize in all.                      *)
(***************************************************************************)
MaxSize == 4

Elem(label, kids) ==
    [tag |-> label.tag, attrib |-> label.attrib, text |-> label.text, kids |-> kids]

Label(tag, attrib, text) == [tag |-> tag, attrib |-> attrib, text |-> text]

RootLabels ==
    { Label("Catalog", <<>>, None), Label("Catalog", << <<"ver", "1">> >>, None) }

\* the labels of the elements at each depth below the root
Labels(depth) ==
    CASE depth = 1 ->
           { Label("CUnit", << <<"id", "m">>, <<"hp", "10">> >>, None),
             Label("CUnit", << <<"hp", "15">>, <<"id", "m">> >>, None),
             Label("CAbil", << <<"id", "m">> >>, None),
             Label("CUnit", << <<"id", "">> >>, None),
             Label("CUnit", << <<"index", "0">> >>, None) }
      [] depth = 2 ->
           { Label("effect", <<>>, None),
             Label("weapon", << <<"index", "0">> >>, None) }
      [] depth = 3 ->
           { Label("amount", <<>>, "5"), Label("amount", <<>>, None) }
      [] OTHER -> {}

\* the sequences of elements at a depth that hold n elements in all
RECURSIVE Forest(_, _)
Forest(depth, n) ==
    IF n = 0 THEN {<<>>}
    ELSE UNION { { <<Elem(label, kids)>> \o rest :
                     label \in Labels(depth),
                     kids \in Forest(depth + 1, k - 1),
                     rest \in Forest(depth, n - k) } : k \in 1..n }

\* the well-formed files of size n
XmlDocs(n) ==
    UNION { { XmlFile(Elem(label, kids)) : kids \in Forest(1, n - Len(label.attrib)) } :
              label \in {l \in RootLabels : Len(l.attrib) <= n} }

\* the files of size n; of size 0 are also no file and a malformed one
XmlFiles(n) == IF n = 0 THEN {NoFile, Malformed} \cup XmlDocs(0) ELSE XmlDocs(n)

Sizes ==
    {s \in (0..MaxSize) \X (0..MaxSize) \X (0..MaxSize) : s[1] + s[2] + s[3] <= MaxSize}

InitXml ==
    /\ \E s \in Sizes :
          \E b \in XmlFiles(s[1]), p \in XmlFiles(s[2]), e \in XmlFiles(s[3]) :
             files = [rel \in RelPaths |->
                         IF rel = "UnitData.xml"
                         THEN [base |-> b, patch |-> p, extra |-> e]
                         ELSE NoFiles]
    /\ out = [rel \in RelPaths |-> NoFile]
    /\ pc = 0
    /\ raised = NoRaise
    /\ stdout = <<>>
    /\ task = [rel \in RelPaths |-> 0]

SpecXml == InitXml /\ [][Next]_vars

(***************************************************************************)
(* Text files of bounded size: the three files of a path hold at most      *)
(* MaxLines lines in all.                                                  *)
(***************************************************************************)
MaxLines == 5

Lines ==
    { Header("Sounds"), KV("volume", "50", " = "), KV("volume", "80", "="),
      KV("bass", "50", " = "), Blank }

TextFile(lines) == [kind |-> "text", lines |-> lines]

RECURSIVE SeqsOfLen(_)
SeqsOfLen(n) ==
    IF n = 0 THEN {<<>>}
    ELSE { Append(s, l) : s \in SeqsOfLen(n - 1), l \in Lines }

\* the files of n lines; with no line, no file or an empty one
TextFiles(n) == (IF n = 0 THEN {NoFile} ELSE {}) \cup { TextFile(s) : s \in SeqsOfLen(n) }

LineCounts ==
    {s \in (0..MaxLines) \X (0..MaxLines) \X (0..MaxLines) : s[1] + s[2] + s[3] <= MaxLines}

InitIni ==
    /\ \E s \in LineCounts :
          \E b \in TextFiles(s[1]), p \in TextFiles(s[2]), e \in TextFiles(s[3]) :
             files = [rel \in RelPaths |->
                         IF rel = "GameStrings.txt"
                         THEN [base |-> b, patch |-> p, extra |-> e]
                         ELSE NoFiles]
    /\ out = [rel \in RelPaths |-> NoFile]
    /\ pc = 0
    /\ raised = NoRaise
    /\ stdout = <<>>
    /\ task = [rel \in RelPaths |-> 0]

SpecIni == InitIni /\ [][Next]_vars

(***************************************************************************)
(* Whole trees: at most MaxFiles files exist in the three input trees, and *)
(* each is one of a few files of its kind.                                 *)
(***************************************************************************)
MaxFiles == 4

UnitDoc == XmlFile(Elem(Label("Catalog", <<>>, None),
                        << Elem(Label("CUnit", << <<"id", "m">> >>, None), <<>>) >>))

FilesAt(rel) ==
    CASE rel = "UnitData.xml" -> {Malformed, UnitDoc} \cup XmlDocs(0)
      [] rel = "GameStrings.txt" ->
           { TextFile(<<KV("volume", "80", "="), KV("bass", "50", " = ")>>),
             TextFile(<<KV("volume", "50", " = "), Blank>>) }
      [] rel = "Minimap.tga" -> { [kind |-> "bytes", id |-> "m1"],
                                  [kind |-> "bytes", id |-> "m2"] }
      [] rel = "t3HeightMap" -> { [kind |-> "bytes", id |-> "h1"],
                                  [kind |-> "bytes", id |-> "h2"] }

\* the three files of a path, any of them missing
Triples(rel) ==
    [base : {NoFile} \cup FilesAt(rel), patch : {NoFile} \cup FilesAt(rel),
     extra : {NoFile} \cup FilesAt(rel)]

Count(t) == Cardinality({x \in {"base", "patch", "extra"} : Exists(t[x])})

Init ==
    /\ \E s \in Triples("GameStrings.txt"), m \in Triples("Minimap.tga"),
          x \in Triples("UnitData.xml"), h \in Triples("t3HeightMap") :
          /\ Count(s) + Count(m) + Count(x) + Count(h) <= MaxFiles
          /\ files = [rel \in RelPaths |->
                         CASE rel = "GameStrings.txt" -> s
                           [] rel = "Minimap.tga" -> m
                           [] rel = "UnitData.xml" -> x
                           [] rel = "t3HeightMap" -> h]
    /\ out = [rel \in RelPaths |-> NoFile]
    /\ pc = 0
    /\ raised = NoRaise
    /\ stdout = <<>>
    /\ task = [rel \in RelPaths |-> 0]

Spec == Init /\ [][Next]_vars

(***************************************************************************)
(* Vocabulary of the properties                                            *)
(***************************************************************************)
Tiers == <<"base", "patch", "extra">>

\* merge_all has returned or raised
Finished == raised # NoRaise \/ pc = Cardinality(all_files)

\* merge_all has returned
Done == raised = NoRaise /\ pc = Cardinality(all_files)

Xml == "UnitData.xml"

Ini == "GameStrings.txt"

IsXml(f) == f.kind = "xml"

\* the attribute mapping as a set of <<name, value>> pairs
AttribSet(n) == Range(n.attrib)

Sentinel(n) == n.attrib = <<>>

\* the IdentityKey of the data model: classification and value
IdentityKey(n) ==
    LET a == AttribSet(n)
    IN  IF \E q \in a : q[1] = "id" THEN <<"id", (CHOOSE q \in a : q[1] = "id")[2]>>
        ELSE IF \E q \in a : q[1] = "index"
             THEN <<"index", (CHOOSE q \in a : q[1] = "index")[2]>>
        ELSE IF \E q \in a : q[1] = "value"
             THEN <<"value", (CHOOSE q \in a : q[1] = "value")[2]>>
        ELSE <<"attrs", a>>

\* the same logical entity: equal tag and equal non-sentinel IdentityKey
SameEntity(a, b) ==
    /\ a.tag = b.tag
    /\ ~Sentinel(a) /\ ~Sentinel(b)
    /\ IdentityKey(a) = IdentityKey(b)

\* no element of the tree has two children that are the same entity
RECURSIVE UniqueTree(_)
UniqueTree(n) ==
    /\ \A i, j \in 1..Len(n.kids) : i # j => ~SameEntity(n.kids[i], n.kids[j])
    /\ \A i \in 1..Len(n.kids) : UniqueTree(n.kids[i])

\* structural equality of two anonymous elements
SameContent(a, b) == element_signature(a) = element_signature(b)

\* the tiers of the catalog path whose file exists
Present == {t \in Range(Tiers) : Exists(files[Xml][t])}

AllParse == \A t \in Present : IsXml(files[Xml][t])

\* the case of one catalog entity defined once by Base and once by Patch,
\* Overlay absent: the single root child of Base and the single root child of
\* Patch carry the same tag and the same non-empty id
PairCase ==
    /\ Done
    /\ IsXml(files[Xml].base) /\ IsXml(files[Xml].patch)
    /\ files[Xml].extra = NoFile
    /\ Len(files[Xml].base.root.kids) = 1
    /\ Len(files[Xml].patch.root.kids) = 1
    /\ SameEntity(files[Xml].base.root.kids[1], files[Xml].patch.root.kids[1])
    /\ IdentityKey(files[Xml].base.root.kids[1])[1] = "id"
    /\ IdentityKey(files[Xml].base.root.kids[1])[2] # ""

PairTarget == files[Xml].base.root.kids[1]

PairSource == files[Xml].patch.root.kids[1]

PairMerged == out[Xml].root.kids[1]

\* how many children of node n are anonymous, carry the tag of c and are
\* structurally equal to c
Copies(n, c) ==
    Cardinality({i \in 1..Len(n.kids) :
        /\ Sentinel(n.kids[i])
        /\ n.kids[i].tag = c.tag
        /\ SameContent(n.kids[i], c)})

\* C1 (anonymous-child deduplication): when the Patch entity is merged into
\* the Base entity, every anonymous child of the Patch entity that is
\* structurally equal to a same-tag anonymous child the Base entity already
\* had is discarded - the merged entity holds as many such children as the
\* Base entity held - and one that has no equal in the Base entity is
\* appended exactly once however often the Patch entity repeats it.
C1_AnonymousDedup ==
    PairCase =>
        \A i \in 1..Len(PairSource.kids) :
            Sentinel(PairSource.kids[i]) =>
                Copies(PairMerged, PairSource.kids[i]) =
                    IF Copies(PairTarget, PairSource.kids[i]) > 0
                    THEN Copies(PairTarget, PairSource.kids[i])
                    ELSE 1

\* the root attribute names the parsed tiers define
RootNames == {q[1] : q \in UNION {AttribSet(files[Xml][t].root) : t \in Present}}

\* the value the highest-priority tier defining attribute k on the root gives
RootWinner(k) ==
    LET def(t) == t \in Present /\ \E q \in AttribSet(files[Xml][t].root) : q[1] = k
        top == IF def("extra") THEN "extra" ELSE IF def("patch") THEN "patch" ELSE "base"
    IN  (CHOOSE q \in AttribSet(files[Xml][top].root) : q[1] = k)[2]

\* C2 (priority law, tree attributes): for the document root, which is the
\* same logical node in every tier, each attribute of the merged root has the
\* value given by the highest-priority tier that defines it, and attributes
\* defined only by a lower tier are kept.
C2_RootPriority ==
    (Done /\ AllParse /\ Cardinality(Present) >= 2) =>
        AttribSet(out[Xml].root) = {<<k, RootWinner(k)>> : k \in RootNames}

\* C4 (uniqueness of identified children): when every tier that is present
\* parses and is itself free of same-entity siblings, no element of the merged
\* document has two children with equal tag and equal non-sentinel key.
C4_Uniqueness ==
    (Done /\ AllParse /\ Present # {}
          /\ \A t \in Present : UniqueTree(files[Xml][t].root)) =>
        UniqueTree(out[Xml].root)

\* C5 (idempotence): merging a document free of same-entity siblings with
\* itself in all three tiers yields a document structurally equal to it.
C5_Idempotence ==
    (Done /\ IsXml(files[Xml].base)
          /\ files[Xml].patch = files[Xml].base
          /\ files[Xml].extra = files[Xml].base
          /\ UniqueTree(files[Xml].base.root)) =>
        SameContent(out[Xml].root, files[Xml].base.root)

(***************************************************************************)
(* Section tables                                                          *)
(***************************************************************************)
\* the section a line of a file belongs to
SecAt(lines, i) ==
    LET hs == {j \in 1..(i - 1) : lines[j].t = "header"}
    IN  IF hs = {} THEN "__root__"
        ELSE lines[CHOOSE j \in hs : \A h \in hs : h <= j].name

\* the <<section, key, value>> entries a file defines: its last line for
\* each (section, key)
Entries(f) ==
    IF ~Exists(f) THEN {}
    ELSE {<<SecAt(f.lines, i), f.lines[i].k, f.lines[i].v>> :
            i \in {i \in 1..Len(f.lines) :
                     /\ f.lines[i].t = "kv"
                     /\ \A j \in (i + 1)..Len(f.lines) :
                            ~(/\ f.lines[j].t = "kv"
                              /\ f.lines[j].k = f.lines[i].k
                              /\ SecAt(f.lines, j) = SecAt(f.lines, i))}}

Defined(f) == {<<e[1], e[2]>> : e \in Entries(f)}

ValueIn(f, sk) == (CHOOSE e \in Entries(f) : <<e[1], e[2]>> = sk)[3]

\* the section merge ran: the path has a Patch or an Overlay file
IniMerged ==
    /\ Done
    /\ Exists(files[Ini].patch) \/ Exists(files[Ini].extra)

\* the value of the highest-priority tier that defines (section, key)
IniWinner(sk) ==
    IF sk \in Defined(files[Ini].extra) THEN ValueIn(files[Ini].extra, sk)
    ELSE IF sk \in Defined(files[Ini].patch) THEN ValueIn(files[Ini].patch, sk)
    ELSE ValueIn(files[Ini].base, sk)

\* C3 (priority law, section tables): when Patch or Overlay exists, the
\* entries of the merged table are exactly the (section, key) pairs defined
\* by some tier, each with the value of the highest-priority tier defining it.
C3_IniPriority ==
    IniMerged =>
        /\ Entries(out[Ini]) =
              {<<sk[1], sk[2], IniWinner(sk)>> :
                  sk \in Defined(files[Ini].base) \cup Defined(files[Ini].patch)
                         \cup Defined(files[Ini].extra)}
        /\ \A e1, e2 \in Entries(out[Ini]) :
              (e1[1] = e2[1] /\ e1[2] = e2[2]) => e1 = e2

\* a (section, key) all three tiers define, Patch differing from Base and
\* Overlay differing from Patch, has been merged
C3_Witness ==
    /\ IniMerged
    /\ \E sk \in Defined(files[Ini].base) :
          /\ sk \in Defined(files[Ini].patch) /\ sk \in Defined(files[Ini].extra)
          /\ ValueIn(files[Ini].patch, sk) # ValueIn(files[Ini].base, sk)
          /\ ValueIn(files[Ini].extra, sk) # ValueIn(files[Ini].patch, sk)
          /\ <<sk[1], sk[2], ValueIn(files[Ini].extra, sk)>> \in Entries(out[Ini])

\* the conflicts merging Patch reports: its entries that Base defines otherwise
PatchConflicts ==
    {[msg |-> "conflict", section |-> e[1], key |-> e[2], name |-> "patch", value |-> e[3]] :
        e \in {e \in Entries(files[Ini].patch) :
                 /\ <<e[1], e[2]>> \in Defined(files[Ini].base)
                 /\ ValueIn(files[Ini].base, <<e[1], e[2]>>) # e[3]}}

\* the conflicts merging Overlay reports: its entries that the table built
\* from Base and Patch defines otherwise
ExtraConflicts ==
    {[msg |-> "conflict", section |-> e[1], key |-> e[2], name |-> "extra", value |-> e[3]] :
        e \in {e \in Entries(files[Ini].extra) :
                 LET sk == <<e[1], e[2]>>
                 IN  IF sk \in Defined(files[Ini].patch)
                     THEN ValueIn(files[Ini].patch, sk) # e[3]
                     ELSE /\ sk \in Defined(files[Ini].base)
                          /\ ValueIn(files[Ini].base, sk) # e[3]}}

\* what merging the section-table path printed
IniPrints == [i \in 1..Len(stdout) |-> stdout[i].print]

\* C7 (conflict reporting): the records of one section merge are, without
\* repetition, exactly one per Patch entry and per Overlay entry that the
\* table built so far defines with a different value; every Patch record
\* precedes every Overlay record; and the merged table holds, for each
\* reported (section, key), the value of its last record.
C7_ConflictRecords ==
    IniMerged =>
        /\ Range(IniPrints) = PatchConflicts \cup ExtraConflicts
        /\ Len(IniPrints) = Cardinality(PatchConflicts \cup ExtraConflicts)
        /\ \A i, j \in 1..Len(IniPrints) :
              (IniPrints[i].name = "extra" /\ IniPrints[j].name = "patch") => j < i
        /\ \A i \in 1..Len(IniPrints) :
              (\A j \in (i + 1)..Len(IniPrints) :
                  ~(IniPrints[j].section = IniPrints[i].section
                    /\ IniPrints[j].key = IniPrints[i].key))
              => <<IniPrints[i].section, IniPrints[i].key, IniPrints[i].value>>
                    \in Entries(out[Ini])

\* a merge that reported a Patch conflict and then an Overlay conflict, and one
\* redefinition with an unchanged value that it did not report
C7_Witness ==
    /\ IniMerged
    /\ \E i, j \in 1..Len(IniPrints) :
          IniPrints[i].name = "patch" /\ IniPrints[j].name = "extra"
    /\ \E e \in Entries(files[Ini].patch) : e \in Entries(files[Ini].base)

(***************************************************************************)
(* Identity preservation                                                   *)
(***************************************************************************)
\* no two anonymous children of n restate each other
NoRestatement(n) ==
    \A i, j \in 1..Len(n.kids) :
        (i # j /\ Sentinel(n.kids[i]) /\ n.kids[i].tag = n.kids[j].tag
               /\ Sentinel(n.kids[j]))
        => ~SameContent(n.kids[i], n.kids[j])

\* child c of the Patch entity matches child b of the Base entity: the same
\* entity, or an anonymous restatement of it
Matches(c, b) ==
    \/ SameEntity(c, b)
    \/ Sentinel(c) /\ Sentinel(b) /\ c.tag = b.tag /\ SameContent(c, b)

\* the children of the Patch entity that match no child of the Base entity
Added ==
    SelectSeq(PairSource.kids,
              LAMBDA c : \A j \in 1..Len(PairTarget.kids) : ~Matches(c, PairTarget.kids[j]))

\* attribute mapping a overwritten by attribute mapping b
Overwritten(a, b) ==
    {q \in a : \A r \in b : r[1] # q[1]} \cup b

\* C6 (identity preservation): a Base entity and a Patch entity with the same
\* tag and id, neither holding two children that are the same entity or that
\* restate each other, merge to a single node whose attributes are Base's
\* overwritten by Patch's and whose children are Base's children in place -
\* an unmatched one unchanged, a matched one with its attributes overwritten
\* by its match's - followed by the Patch children that match no Base child.
C6_IdentityPreservation ==
    (/\ PairCase
     /\ UniqueTree(PairTarget) /\ UniqueTree(PairSource)
     /\ NoRestatement(PairTarget) /\ NoRestatement(PairSource)) =>
        /\ Len(out[Xml].root.kids) = 1
        /\ AttribSet(PairMerged) = Overwritten(AttribSet(PairTarget), AttribSet(PairSource))
        /\ Len(PairMerged.kids) = Len(PairTarget.kids) + Len(Added)
        /\ \A j \in 1..Len(PairTarget.kids) :
              IF \E i \in 1..Len(PairSource.kids) :
                     SameEntity(PairSource.kids[i], PairTarget.kids[j])
              THEN \E i \in 1..Len(PairSource.kids) :
                     /\ SameEntity(PairSource.kids[i], PairTarget.kids[j])
                     /\ PairMerged.kids[j].tag = PairTarget.kids[j].tag
                     /\ AttribSet(PairMerged.kids[j]) =
                           Overwritten(AttribSet(PairTarget.kids[j]),
                                       AttribSet(PairSource.kids[i]))
              ELSE PairMerged.kids[j] = PairTarget.kids[j]
        /\ \A i \in 1..Len(Added) :
              PairMerged.kids[Len(PairTarget.kids) + i] = Added[i]

(***************************************************************************)
(* Unparseable and absent tiers                                            *)
(***************************************************************************)
\* the tiers of a path, a file that fails to parse taken away
Cleaned(rel) ==
    [base |-> IF files[rel].base = Malformed THEN NoFile ELSE files[rel].base,
     patch |-> IF files[rel].patch = Malformed THEN NoFile ELSE files[rel].patch,
     extra |-> IF files[rel].extra = Malformed THEN NoFile ELSE files[rel].extra,
     dest |-> NoFile]

\* C9 (an unparseable tier is an absent tier): once the catalog path has been
\* dealt with, no error has been raised and the output at the path is the
\* output the merge gives when each tier file that fails to parse is missing:
\* the content of the one parseable tier when the others fail to parse, and no
\* file when every existing tier fails to parse.
C9_UnparseableIsAbsent ==
    (Finished /\ Present # {}) =>
        /\ raised = NoRaise
        /\ out[Xml] = merge_file_triple(Cleaned(Xml), ".xml").fs["dest"]
        /\ (\A t \in Present : files[Xml][t] = Malformed) => out[Xml] = NoFile
        /\ \A t \in Present :
              (/\ IsXml(files[Xml][t])
               /\ \A u \in Present \ {t} : files[Xml][u] = Malformed)
              => IsXml(out[Xml]) /\ out[Xml].root = files[Xml][t].root

\* C8 (absent-tier pass-through): after the merge, the output at every path
\* that only the Patch tree holds is Patch's file, content for content.
C8_PatchPassThrough ==
    Done =>
        \A rel \in RelPaths :
            (/\ Exists(files[rel].patch)
             /\ ~Exists(files[rel].base) /\ ~Exists(files[rel].extra))
            => out[rel] = files[rel].patch

\* the output merging path rel on its own gives
MergedAlone(rel) ==
    merge_file_triple([base |-> files[rel].base, patch |-> files[rel].patch,
                       extra |-> files[rel].extra, dest |-> NoFile],
                      Suffix(rel)).fs["dest"]

\* the path whose merge raised
Failing == SortedFiles[pc + 1]

\* C10 (error isolation): no error leaves the merge of a path, and when
\* merge_all is over the output of every path other than one whose merge
\* failed has been written.
C10_ErrorIsolation ==
    /\ raised = NoRaise
    /\ Finished =>
          \A rel \in all_files :
              (raised = NoRaise \/ rel # Failing) => out[rel] = MergedAlone(rel)

(***************************************************************************)
(* The output tree                                                         *)
(***************************************************************************)
\* some input tree holds a file at the path
InSomeTree(rel) == \E t \in Range(Tiers) : Exists(files[rel][t])

\* a catalog path without a Base file whose Patch and Overlay files all fail
\* to parse
NothingParses(rel) ==
    /\ Suffix(rel) = ".xml"
    /\ ~Exists(files[rel].base)
    /\ \A t \in {"patch", "extra"} : Exists(files[rel][t]) => files[rel][t] = Malformed

\* C11 as stated (output path set): once merge_all has returned, the output
\* tree holds a file at exactly the relative paths some input tree holds.
C11_OutputPaths ==
    Done => \A rel \in RelPaths : Exists(out[rel]) <=> InSomeTree(rel)

\* C11 amended: once merge_all has returned, the output tree holds a file at
\* exactly the relative paths some input tree holds, save the catalog paths
\* that have no Base file and whose Patch and Overlay files all fail to parse,
\* where it holds none.
C11_OutputPathsParsed ==
    Done => \A rel \in RelPaths :
                Exists(out[rel]) <=> (InSomeTree(rel) /\ ~NothingParses(rel))

\* merge_all returned over a tree with a path only the Overlay tree holds, a
\* path no tree holds and a catalog path where nothing parses
C11_Witness ==
    /\ Done
    /\ \E rel \in RelPaths :
          /\ Exists(files[rel].extra) /\ ~Exists(files[rel].base)
          /\ ~Exists(files[rel].patch) /\ Exists(out[rel])
    /\ \E rel \in RelPaths : ~InSomeTree(rel) /\ ~Exists(out[rel])
    /\ \E rel \in RelPaths : InSomeTree(rel) /\ NothingParses(rel)

(***************************************************************************)
(* Section serialization.  Text files over two named sections, at most     *)
(* MaxLines lines in the three files of the path.                          *)
(***************************************************************************)
OrderLines ==
    { Header("Video"), Header("Sounds"), KV("volume", "50", " = "),
      KV("volume", "80", "="), KV("bass", "50", " = ") }

RECURSIVE OrderSeqs(_)
OrderSeqs(n) ==
    IF n = 0 THEN {<<>>}
    ELSE { Append(s, l) : s \in OrderSeqs(n - 1), l \in OrderLines }

OrderFiles(n) == (IF n = 0 THEN {NoFile} ELSE {}) \cup { TextFile(s) : s \in OrderSeqs(n) }

InitIniOrder ==
    /\ \E s \in LineCounts :
          \E b \in OrderFiles(s[1]), p \in OrderFiles(s[2]), e \in OrderFiles(s[3]) :
             files = [rel \in RelPaths |->
                         IF rel = "GameStrings.txt"
                         THEN [base |-> b, patch |-> p, extra |-> e]
                         ELSE NoFiles]
    /\ out = [rel \in RelPaths |-> NoFile]
    /\ pc = 0
    /\ raised = NoRaise
    /\ stdout = <<>>
    /\ task = [rel \in RelPaths |-> 0]

SpecIniOrder == InitIniOrder /\ [][Next]_vars

\* the named sections a file opens
Opened(f) ==
    IF ~Exists(f) THEN {}
    ELSE {f.lines[i].name : i \in {i \in 1..Len(f.lines) : f.lines[i].t = "header"}}

\* the content of the three inputs: the named sections they open and, for
\* each (section, key) they define, the value of the highest-priority tier
ContentSections ==
    Opened(files[Ini].base) \cup Opened(files[Ini].patch) \cup Opened(files[Ini].extra)

ContentKeys(section) ==
    {sk[2] : sk \in {sk \in Defined(files[Ini].base) \cup Defined(files[Ini].patch)
                              \cup Defined(files[Ini].extra) : sk[1] = section}}

\* the elements of a set of strings in ascending order
Ascending(S) ==
    [i \in 1..Cardinality(S) |->
        CHOOSE x \in S : Cardinality({y \in S : StrLess(y, x)}) = i - 1]

\* the keys of a section in ascending order, each as key = value
Block(section) ==
    LET ks == Ascending(ContentKeys(section))
    IN  [i \in 1..Len(ks) |-> KV(ks[i], IniWinner(<<section, ks[i]>>), " = ")]

RECURSIVE Blocks(_, _)
Blocks(names, i) ==
    IF i > Len(names) THEN <<>>
    ELSE <<Header(names[i])>> \o Block(names[i]) \o <<Blank>> \o Blocks(names, i + 1)

\* the text the content of the inputs determines
Canonical ==
    (IF ContentKeys("__root__") = {} THEN <<>> ELSE Block("__root__") \o <<Blank>>)
    \o Blocks(Ascending(ContentSections), 1)

\* C12 as stated (order-independent serialization): for every combination of
\* present tiers, Base alone included, the text written for a section-table
\* path is the one its content determines: root keys first in ascending
\* order, then the named sections in ascending order, each with its keys
\* ascending, every entry as key = value.
C12_Canonical ==
    (Done /\ InSomeTree(Ini)) =>
        out[Ini].kind = "text" /\ out[Ini].lines = Canonical

\* C12 amended: the same whenever the path has a Patch or an Overlay file.
C12_CanonicalMerged ==
    IniMerged => out[Ini].kind = "text" /\ out[Ini].lines = Canonical

\* a merge of inputs that open both sections, the later one first, and define
\* two root keys out of order
C12_Witness ==
    /\ IniMerged
    /\ ContentSections = {"Sounds", "Video"}
    /\ \E t \in Range(Tiers) :
          /\ Exists(files[Ini][t])
          /\ \E i, j \in 1..Len(files[Ini][t].lines) :
                /\ i < j
                /\ files[Ini][t].lines[i] = Header("Video")
                /\ files[Ini][t].lines[j] = Header("Sounds")
    /\ \E t \in Range(Tiers) :
          /\ Exists(files[Ini][t])
          /\ Len(files[Ini][t].lines) >= 2
          /\ files[Ini][t].lines[1].t = "kv" /\ files[Ini][t].lines[1].k = "volume"
          /\ files[Ini][t].lines[2].t = "kv" /\ files[Ini][t].lines[2].k = "bass"

(***************************************************************************)
(* Child ordering                                                          *)
(***************************************************************************)
\* the tiers of the catalog path that exist, lowest priority first
PresentSeq == SelectSeq(Tiers, LAMBDA t : t \in Present)

\* the children of a node as the sequence of their tags and identity keys
KeySeq(kids) == [i \in 1..Len(kids) |-> <<kids[i].tag, IdentityKey(kids[i])>>]

\* s from its i-th element on is a subsequence of t from its j-th element on
RECURSIVE IsSubseqFrom(_, _, _, _)
IsSubseqFrom(s, i, t, j) ==
    IF i > Len(s) THEN TRUE
    ELSE IF j > Len(t) THEN FALSE
    ELSE IF s[i] = t[j] THEN IsSubseqFrom(s, i + 1, t, j + 1)
    ELSE IsSubseqFrom(s, i, t, j + 1)

\* seq is prefix followed by a subsequence of pool
InheritedThenNew(seq, prefix, pool) ==
    /\ Len(seq) >= Len(prefix)
    /\ SubSeq(seq, 1, Len(prefix)) = prefix
    /\ IsSubseqFrom(SubSeq(seq, Len(prefix) + 1, Len(seq)), 1, pool, 1)

\* the root of the lowest-priority tier present
LowRoot == files[Xml][PresentSeq[1]].root

\* the root children of the higher-priority tiers, tier by tier
RECURSIVE HighKids(_)
HighKids(i) ==
    IF i > Len(PresentSeq) THEN <<>>
    ELSE files[Xml][PresentSeq[i]].root.kids \o HighKids(i + 1)

\* the children of those among kids that carry the id of node n, in order
RECURSIVE KidsOfSameId(_, _, _)
KidsOfSameId(kids, i, n) ==
    IF i > Len(kids) THEN <<>>
    ELSE (IF /\ IdentityKey(n)[1] = "id"
             /\ IdentityKey(kids[i]) = IdentityKey(n)
          THEN kids[i].kids ELSE <<>>)
         \o KidsOfSameId(kids, i + 1, n)

\* C13 (child ordering): when every tier present parses, the children of the
\* merged root are the children of the lowest tier in their places followed
\* by children of the higher tiers in tier and document order, and the
\* children of each inherited root child are its own children in their places
\* followed by children of the higher tiers' nodes of the same id in order.
C13_ChildOrdering ==
    (Done /\ AllParse /\ Present # {}) =>
        /\ InheritedThenNew(KeySeq(out[Xml].root.kids), KeySeq(LowRoot.kids),
                            KeySeq(HighKids(2)))
        /\ \A j \in 1..Len(LowRoot.kids) :
              /\ j <= Len(out[Xml].root.kids)
              /\ InheritedThenNew(KeySeq(out[Xml].root.kids[j].kids),
                                  KeySeq(LowRoot.kids[j].kids),
                                  KeySeq(KidsOfSameId(HighKids(2), 1, LowRoot.kids[j])))

\* a merge that gave an inherited root child a new child after the child it had
C13_Witness ==
    /\ Done /\ AllParse /\ Cardinality(Present) >= 2
    /\ \E j \in 1..Len(LowRoot.kids) :
          /\ Len(LowRoot.kids[j].kids) > 0
          /\ Len(out[Xml].root.kids[j].kids) > Len(LowRoot.kids[j].kids)
          /\ out[Xml].root.kids[j].kids[Len(LowRoot.kids[j].kids) + 1].tag
                # LowRoot.kids[j].kids[1].tag

(***************************************************************************)
(* Structural signature                                                    *)
(***************************************************************************)
\* a node and all the nodes below it
RECURSIVE Nodes(_)
Nodes(n) == {n} \cup UNION {Nodes(n.kids[i]) : i \in 1..Len(n.kids)}

\* the text of a node, trimmed, empty taken as absent
TrimmedText(n) ==
    IF n.text = None \/ Strip(n.text) = "" THEN None ELSE Strip(n.text)

\* the same tag, attribute set and trimmed text, and the same children up to
\* their order, each child of one the like of one child of the other
RECURSIVE SameShape(_, _)
SameShape(a, b) ==
    /\ a.tag = b.tag
    /\ AttribSet(a) = AttribSet(b)
    /\ TrimmedText(a) = TrimmedText(b)
    /\ Len(a.kids) = Len(b.kids)
    /\ \E f \in [1..Len(a.kids) -> 1..Len(a.kids)] :
          /\ \A i, j \in 1..Len(a.kids) : i # j => f[i] # f[j]
          /\ \A i \in 1..Len(a.kids) : SameShape(a.kids[i], b.kids[f[i]])

\* C14 (canonical signature): for all nodes a and b of a merged document, the
\* signature of each is computed, and the two signatures are equal exactly
\* when a and b have the same tag, attribute set and trimmed text and the same
\* multiset of children.
C14_Signature ==
    (Done /\ IsXml(out[Xml])) =>
        \A a, b \in Nodes(out[Xml].root) :
            /\ ~element_signature(a).raised
            /\ (element_signature(a).sig = element_signature(b).sig) <=> SameShape(a, b)

(***************************************************************************)
(* The per-path merges run by independent workers, one per relative path,  *)
(* their stages interleaved in any order.  A worker whose merge raises     *)
(* stops; the others go on.                                                *)
(***************************************************************************)
\* stage k of merge_file_triple
Stage(fs, suffix, k) ==
    LET skip == [raised |-> NoRaise, fs |-> fs, prints |-> <<>>]
    IN  IF suffix # ".xml" THEN merge_file_triple(fs, suffix)
        ELSE IF k = 1
        THEN IF Exists(fs["base"]) THEN Copy(fs, "base", "dest") ELSE skip
        ELSE IF k = 2
        THEN IF Exists(fs["patch"])
             THEN merge_catalog_xml(fs, "dest", "patch", "dest") ELSE skip
        ELSE IF Exists(fs["extra"])
             THEN merge_catalog_xml(fs, "dest", "extra", "dest") ELSE skip

\* the worker of path rel runs its next stage
Work(rel) ==
    /\ rel \in all_files
    /\ task[rel] # Failed /\ task[rel] < Stages(Suffix(rel))
    /\ \E fs \in {[base |-> files[rel].base, patch |-> files[rel].patch,
                   extra |-> files[rel].extra, dest |-> out[rel]]} :
       \E r \in {Stage(fs, Suffix(rel), task[rel] + 1)} :
          /\ out' = [out EXCEPT ![rel] = r.fs["dest"]]
          /\ raised' = IF r.raised = NoRaise THEN raised ELSE r.raised
          /\ task' = [task EXCEPT ![rel] = IF r.raised = NoRaise THEN @ + 1 ELSE Failed]
          /\ stdout' = stdout \o [i \in 1..Len(r.prints) |->
                                     [rel |-> rel, print |-> r.prints[i]]]
    /\ UNCHANGED <<files, pc>>

NextPar == \E rel \in RelPaths : Work(rel)

SpecPar == Init /\ [][NextPar]_vars

\* every worker has finished or failed
ParDone ==
    \A rel \in all_files : task[rel] = Failed \/ task[rel] = Stages(Suffix(rel))

\* the output tree merge_all leaves, from the i-th path of its loop on
RECURSIVE SeqOut(_, _)
SeqOut(i, o) ==
    IF i > Len(SortedFiles) THEN o
    ELSE LET rel == SortedFiles[i]
             r == merge_file_triple([base |-> files[rel].base, patch |-> files[rel].patch,
                                     extra |-> files[rel].extra, dest |-> o[rel]],
                                    Suffix(rel))
         IN  IF r.raised = NoRaise
             THEN SeqOut(i + 1, [o EXCEPT ![rel] = r.fs["dest"]])
             ELSE [o EXCEPT ![rel] = r.fs["dest"]]

\* C15 (path independence): whatever the interleaving of the workers' stages,
\* once every worker is over the output tree is the one the sequential loop
\* of merge_all leaves.
C15_PathIndependence ==
    ParDone => out = SeqOut(1, [rel \in RelPaths |-> NoFile])

(***************************************************************************)
(* Identity keys.  Catalogs of one entity whose children carry every kind  *)
(* of attribute map, in both declaration orders; the entity has at most    *)
(* MaxKids children in Base and Patch together.                            *)
(***************************************************************************)
MaxKids == 3

KeyLabels ==
    { Label("weapon", << <<"id", "m">>, <<"index", "0">> >>, None),
      Label("weapon", << <<"index", "0">>, <<"id", "m">> >>, None),
      Label("weapon", << <<"index", "0">>, <<"value", "1">> >>, None),
      Label("weapon", << <<"value", "1">>, <<"index", "0">> >>, None),
      Label("effect", << <<"index", "0">>, <<"value", "1">> >>, None),
      Label("weapon", << <<"value", "1">>, <<"hp", "5">> >>, None),
      Label("weapon", << <<"hp", "5">>, <<"ver", "1">> >>, None),
      Label("weapon", << <<"ver", "1">>, <<"hp", "5">> >>, None),
      Label("effect", << <<"hp", "5">>, <<"ver", "1">> >>, None),
      Label("weapon", <<>>, None) }

\* the sequences of n children
RECURSIVE KeyKids(_)
KeyKids(n) ==
    IF n = 0 THEN {<<>>}
    ELSE { Append(s, Elem(l, <<>>)) : s \in KeyKids(n - 1), l \in KeyLabels }

KeyDocs(n) ==
    { XmlFile(Elem(Label("Catalog", <<>>, None),
                   << Elem(Label("CUnit", << <<"id", "m">> >>, None), kids) >>)) :
        kids \in KeyKids(n) }

KidCounts == {s \in (0..MaxKids) \X (0..MaxKids) : s[1] + s[2] <= MaxKids}

InitKey ==
    /\ \E s \in KidCounts : \E b \in KeyDocs(s[1]), p \in KeyDocs(s[2]) :
          files = [rel \in RelPaths |->
                      IF rel = "UnitData.xml"
                      THEN [base |-> b, patch |-> p, extra |-> NoFile]
                      ELSE NoFiles]
    /\ out = [rel \in RelPaths |-> NoFile]
    /\ pc = 0
    /\ raised = NoRaise
    /\ stdout = <<>>
    /\ task = [rel \in RelPaths |-> 0]

SpecKey == InitKey /\ [][Next]_vars

\* the children whose keys the merge of the Base entity with the Patch entity
\* resolves
Resolved ==
    Range(files[Xml].base.root.kids[1].kids) \cup Range(files[Xml].patch.root.kids[1].kids)

AttribNames(n) == {q[1] : q \in AttribSet(n)}

AttribValue(n, k) == (CHOOSE q \in AttribSet(n) : q[1] = k)[2]

\* the classification the precedence id, index, value, attribute set gives
Classification(n) ==
    IF "id" \in AttribNames(n) THEN "id"
    ELSE IF "index" \in AttribNames(n) THEN "index"
    ELSE IF "value" \in AttribNames(n) THEN "value"
    ELSE IF AttribNames(n) # {} THEN "attrs"
    ELSE "unique"

\* classification and value follow the precedence, and the attribute-set key
\* lists the attributes in ascending order: common to both statements
KeyByPrecedence(n) ==
    LET key == xml_identity_key(n)
    IN  /\ key[1] = Classification(n)
        /\ key[1] \in {"id", "index", "value"} => key[3] = AttribValue(n, key[1])
        /\ key[1] = "attrs" =>
              /\ Range(key[3]) = AttribSet(n)
              /\ \A i, j \in 1..Len(key[3]) : i < j => PairLess(key[3][i], key[3][j])

\* C16 as stated (resolver precedence): for the nodes a merge resolved, the
\* key is a function of the attribute map only, by the precedence id, index,
\* value, sorted attribute set, sentinel; nodes with the same attributes get
\* equal keys whatever the declaration order, and keys of different
\* classifications differ.
C16_KeyOfAttributes ==
    Done => \A a, b \in Resolved :
        /\ KeyByPrecedence(a)
        /\ AttribSet(a) = AttribSet(b) => xml_identity_key(a) = xml_identity_key(b)
        /\ Classification(a) # Classification(b) => xml_identity_key(a) # xml_identity_key(b)

\* C16 amended: for the nodes a merge resolved, the key is a function of the
\* tag and the attribute map, by the same precedence; the
\* key of a node with attributes carries its tag, so nodes get equal keys
\* exactly when they have the same tag, the same classification and the same
\* value for it, whatever the declaration order; the sentinel carries no tag.
C16_KeyOfTagAndAttributes ==
    Done => \A a, b \in Resolved :
        /\ KeyByPrecedence(a)
        /\ Classification(a) # "unique" => xml_identity_key(a)[2] = a.tag
        /\ Classification(a) = "unique" => xml_identity_key(a) = <<"unique", None>>
        /\ (a.tag = b.tag /\ AttribSet(a) = AttribSet(b))
              => xml_identity_key(a) = xml_identity_key(b)
        /\ (Classification(a) # "unique" /\ a.tag # b.tag)
              => xml_identity_key(a) # xml_identity_key(b)
        /\ Classification(a) # Classification(b) => xml_identity_key(a) # xml_identity_key(b)

\* the merge matched a Patch child to the Base child that declares the same
\* attributes in the other order, and kept apart one of another tag
C16_Witness ==
    /\ Done
    /\ Len(files[Xml].base.root.kids[1].kids) = 1
    /\ Len(files[Xml].patch.root.kids[1].kids) = 2
    /\ files[Xml].patch.root.kids[1].kids[1].attrib # files[Xml].base.root.kids[1].kids[1].attrib
    /\ AttribSet(files[Xml].patch.root.kids[1].kids[1]) = AttribSet(files[Xml].base.root.kids[1].kids[1])
    /\ files[Xml].patch.root.kids[1].kids[1].tag = files[Xml].base.root.kids[1].kids[1].tag
    /\ AttribSet(files[Xml].patch.root.kids[1].kids[2]) = AttribSet(files[Xml].base.root.kids[1].kids[1])
    /\ files[Xml].patch.root.kids[1].kids[2].tag # files[Xml].base.root.kids[1].kids[1].tag
    /\ Len(out[Xml].root.kids[1].kids) = 2

(***************************************************************************)
(* Opaque files                                                            *)
(***************************************************************************)
\* the path is routed to neither merger
ByteCopied(rel) == Suffix(rel) \notin {".xml", ".txt", ".ini"}

\* the merge of the path has run to its end
Merged(rel) == rel \in all_files /\ task[rel] = Stages(Suffix(rel))

\* the file of the path in the highest-priority tier that has it
TopFile(rel) ==
    IF Exists(files[rel].extra) THEN files[rel].extra
    ELSE IF Exists(files[rel].patch) THEN files[rel].patch
    ELSE files[rel].base

\* C17 (ByteCopy): once the merge of a path whose extension is none of .xml,
\* .txt and .ini has run, the output file is the path's file in the
\* highest-priority tier that has it, whatever the lower tiers hold.
C17_ByteCopy ==
    \A rel \in RelPaths : (ByteCopied(rel) /\ Merged(rel)) => out[rel] = TopFile(rel)

\* an opaque path was merged whose Overlay file differs from its Patch file
\* and another whose only files are in Base and Patch and differ
C17_Witness ==
    \E r1, r2 \in RelPaths :
        /\ r1 # r2
        /\ ByteCopied(r1) /\ Merged(r1) /\ ByteCopied(r2) /\ Merged(r2)
        /\ Exists(files[r1].extra) /\ Exists(files[r1].patch)
        /\ files[r1].extra # files[r1].patch
        /\ ~Exists(files[r2].extra) /\ Exists(files[r2].patch) /\ Exists(files[r2].base)
        /\ files[r2].patch # files[r2].base

(***************************************************************************)
(* Matching and tags                                                       *)
(***************************************************************************)
\* C18 (matching requires equal tag): when Base and Patch parse, Overlay is
\* absent and no child of Patch's root has the tag of a child of Base's root,
\* no two of them are merged into one node: the merged root holds Base's
\* children unchanged followed by Patch's children unchanged.
C18_EqualTag ==
    (/\ Done
     /\ IsXml(files[Xml].base) /\ IsXml(files[Xml].patch) /\ files[Xml].extra = NoFile
     /\ \A i \in 1..Len(files[Xml].patch.root.kids), j \in 1..Len(files[Xml].base.root.kids) :
           files[Xml].patch.root.kids[i].tag # files[Xml].base.root.kids[j].tag) =>
        out[Xml].root.kids = files[Xml].base.root.kids \o files[Xml].patch.root.kids

====
